---- MODULE Spec2Model ----
(***************************************************************************)
(* Electricity generation plotter: the dataset loaded once by              *)
(* app/plotter.py and the three chart builders of                          *)
(* src/fast_api_functions.py that the POST endpoints call.                 *)
(*                                                                         *)
(* Time is counted in whole hours since 2015-01-01 00:00 (a Thursday).     *)
(* A column name is the sequence of its parts between underscores:         *)
(* "generation_solar" is <<"generation", "solar">>.                        *)
(* A cell is a record: a number, NaN (missing) or a non-numeric string.    *)
(***************************************************************************)
EXTENDS Integers, Sequences, FiniteSets, TLC

VARIABLES
    source,   \* the CSV file data/energy_clean.csv as read_csv sees it
    df,       \* the module-level DataFrame of app/plotter.py
    pc,       \* "boot" before the module body has run, then "idle" between
              \* requests and "responded" when a handler has returned
    columns_list,        \* the columns of the file, for the forms
    generation_columns,  \* the composition whitelist
    req,      \* the form fields of the last POST request
    resp,     \* what its handler returned (or the exception it raised)
    threads   \* the requests in flight on the worker threads, each with the
              \* line it has reached and its local frame

vars == <<source, df, columns_list, generation_columns, pc, req, resp, threads>>

----------------------------------------------------------------------------
(* Bounds of the inputs.                                                   *)

\* Rows of the longest irregular source table.
MaxRows == 3
\* The irregular tables take their timestamps from a grid of MaxGrid + 1 points.
MaxGrid == 4
\* Days of the longest gap-free hourly source table.
MaxHourlyDays == 5
\* Rows of the longest one-row-per-day source table.
MaxDailyRows == 30
\* Worker threads serving requests at the same time.
MaxThreads == 2
\* Names in the longest posted column list the filter is run on by itself.
MaxListLen == 3

----------------------------------------------------------------------------
(* Units and library limits.                                               *)

\* pd.Timedelta(days=1) in hours.
HoursPerDay == 24
DaysPerWeek == 7
\* pd.Timedelta is a signed 64-bit count of nanoseconds: pd.Timedelta(days=n)
\* raises for |n| beyond 106751 days.
TimedeltaMaxDays == 106751
\* pd.Timestamp.max (2262-04-11 23:47) and pd.Timestamp.min (1677-09-21 00:12)
\* in hours since 2015-01-01 00:00: arithmetic leaving the range raises.
TimestampMaxHours == 2167583
TimestampMinHours == -2956511
\* 2015-01-01 is a Thursday; pandas counts Monday as 0.
EpochDayOfWeek == 3
\* Month lengths of 2015, the year every modelled timestamp lies in.
MonthLengths == <<31, 28, 31, 30, 31, 30, 31, 31, 30, 31, 30, 31>>

Min(a, b) == IF a <= b THEN a ELSE b
Max(a, b) == IF a >= b THEN a ELSE b

\* Floor division for any sign of a (TLC's \div is floor division already for
\* positive divisors; spelled out so that the sign convention is explicit).
FloorDiv(a, b) == IF a >= 0 THEN a \div b ELSE -((-a + b - 1) \div b)

----------------------------------------------------------------------------
(* Cells.                                                                  *)

Num(n) == [kind |-> "num", v |-> n]
NaN == [kind |-> "nan", v |-> 0]
\* A cell read_csv could not parse as a number (the column is then of dtype object).
Str == [kind |-> "str", v |-> 0]

IsNum(c) == c.kind = "num"

----------------------------------------------------------------------------
(* Column names.                                                           *)

GENERATION_PREFIX == <<"generation">>

\* c.startswith("generation_"): the first part is "generation" and an
\* underscore (so another part) follows.
StartsWithPrefix(c) ==
    /\ Len(c) > Len(GENERATION_PREFIX)
    /\ SubSeq(c, 1, Len(GENERATION_PREFIX)) = GENERATION_PREFIX

ExcludedColumns ==
    { <<"generation", "load", "difference">>, <<"total", "generation">> }

hour_of_day == <<"hour", "of", "day">>
day_of_week == <<"day", "of", "week">>
month == <<"month">>
time_features == << hour_of_day, day_of_week, month >>

\* The columns of the CSV file, in file order.
CsvColumns ==
    << <<"generation", "biomass">>,
       <<"generation", "fossil", "gas">>,
       <<"generation", "fossil", "oil">>,
       <<"generation", "hydro">>,
       <<"generation", "marine">>,
       <<"generation", "nuclear">>,
       <<"generation", "other">>,
       <<"generation", "solar">>,
       <<"generation", "waste">>,
       <<"generation", "wind", "offshore">>,
       <<"generation", "wind", "onshore">>,
       <<"generation", "load", "difference">>,
       <<"total", "generation">>,
       <<"price", "actual">> >>

generation_solar == <<"generation", "solar">>
generation_wind == <<"generation", "wind", "onshore">>
not_a_real_column == <<"not", "a", "real", "column">>

Range(s) == { s[i] : i \in 1..Len(s) }

----------------------------------------------------------------------------
(* Calendar: the fields pandas derives from a timestamp.                   *)

Hour(t) == t % HoursPerDay
DayNumber(t) == FloorDiv(t, HoursPerDay)
DayOfWeek(t) == (DayNumber(t) + EpochDayOfWeek) % DaysPerWeek

RECURSIVE MonthFrom(_, _)
\* dayOfYear is zero-based; m is the month being tried.
MonthFrom(dayOfYear, m) ==
    IF m >= Len(MonthLengths) \/ dayOfYear < MonthLengths[m]
    THEN m
    ELSE MonthFrom(dayOfYear - MonthLengths[m], m + 1)

Month(t) == MonthFrom(DayNumber(t), 1)

----------------------------------------------------------------------------
(* The CSV file: the inputs the loader is run on.                          *)

\* 2015-01-30 12:00, the first timestamp of every regular source table.
Base == 29 * HoursPerDay + 12
GridStep == HoursPerDay \div 2
Grid == { Base + k * GridStep : k \in 0..MaxGrid }

RECURSIVE Ascending(_)
\* The elements of a finite set of integers as an ascending sequence.
Ascending(S) ==
    IF S = {} THEN <<>>
    ELSE LET m == CHOOSE x \in S : \A y \in S : x <= y
         IN  <<m>> \o Ascending(S \ {m})

Reverse(s) == [i \in 1..Len(s) |-> s[Len(s) + 1 - i]]
RotateLeft(s) == IF s = <<>> THEN s ELSE Tail(s) \o <<Head(s)>>

\* Row order of the file: nothing in the loader sorts, so the file's order is
\* the table's order.  Timestamps are unique.
IrregularIndexes ==
    UNION { { Ascending(S), Reverse(Ascending(S)), RotateLeft(Ascending(S)) } :
            S \in { T \in SUBSET Grid : Cardinality(T) \in 1..MaxRows } }

RegularIndex(step, n) == [i \in 1..n |-> Base + (i - 1) * step]

HourlyIndexes == { RegularIndex(1, d * HoursPerDay) : d \in 1..MaxHourlyDays }
DailyIndexes == { RegularIndex(HoursPerDay, n) : n \in 1..MaxDailyRows }

SourceIndexes == IrregularIndexes \cup HourlyIndexes \cup DailyIndexes

\* What the generation_solar column holds, repeated down the rows, and the
\* UTC offset written in the file's timestamps ("naive": none).
SourceVariants ==
    { [cells |-> << Num(10), NaN, Num(20) >>, tz |-> "naive"],
      [cells |-> << Num(10), Num(20), Num(30) >>, tz |-> "+01:00"],
      [cells |-> << Str, Num(10), NaN >>, tz |-> "naive"] }

ColumnPosition(c) == CHOOSE k \in 1..Len(CsvColumns) : CsvColumns[k] = c

SourceCell(variant, c, i) ==
    IF c = generation_solar
    THEN variant.cells[((i - 1) % Len(variant.cells)) + 1]
    ELSE Num(ColumnPosition(c) + i)

MakeSource(index, variant) ==
    [ index   |-> index,
      tz      |-> variant.tz,
      columns |-> CsvColumns,
      data    |-> [c \in Range(CsvColumns) |->
                     [i \in 1..Len(index) |-> SourceCell(variant, c, i)]] ]

Sources == { MakeSource(ix, v) : ix \in SourceIndexes, v \in SourceVariants }

----------------------------------------------------------------------------
(* app/plotter.py, module body: load the dataset once.                     *)

NoFrame == [index |-> <<>>, tz |-> "naive", columns |-> <<>>, data |-> <<>>]
NoRequest == [endpoint |-> "none", columns |-> <<>>, days |-> 0,
              stacked |-> FALSE, time_feature |-> <<>>]
NoResponse == [kind |-> "none"]

\* df.index.tz_localize(None): the wall-clock time stays, the offset goes.
TzLocalizeNone(frame) == [frame EXCEPT !.tz = "naive"]

\* Lines 35-38 of app/plotter.py and lines 31-36 of plot_time_series: make
\* the index timezone-naive if it is not.
NormalizeIndex(frame) ==
    IF frame.tz # "naive" THEN TzLocalizeNone(frame) ELSE frame

RECURSIVE FilterSeq(_, _)
\* [c for c in s if c in allowed]
FilterSeq(s, allowed) ==
    IF s = <<>> THEN <<>>
    ELSE IF Head(s) \in allowed
         THEN <<Head(s)>> \o FilterSeq(Tail(s), allowed)
         ELSE FilterSeq(Tail(s), allowed)

\* generation_columns of app/plotter.py.
GenerationColumns(columns) ==
    FilterSeq(columns, { c \in Range(columns) :
                           StartsWithPrefix(c) /\ c \notin ExcludedColumns })

\* df['hour_of_day'] = ..., df['day_of_week'] = ..., df['month'] = ...
AddTimeFeatures(frame) ==
    [ frame EXCEPT
        !.columns = frame.columns \o time_features,
        !.data = [c \in Range(frame.columns) \cup Range(time_features) |->
                    IF c = hour_of_day
                    THEN [i \in 1..Len(frame.index) |-> Num(Hour(frame.index[i]))]
                    ELSE IF c = day_of_week
                    THEN [i \in 1..Len(frame.index) |-> Num(DayOfWeek(frame.index[i]))]
                    ELSE IF c = month
                    THEN [i \in 1..Len(frame.index) |-> Num(Month(frame.index[i]))]
                    ELSE frame.data[c]] ]

Init ==
    /\ source \in Sources
    /\ df = NoFrame
    /\ columns_list = <<>>
    /\ generation_columns = <<>>
    /\ pc = "boot"
    /\ req = NoRequest
    /\ resp = NoResponse
    /\ threads = <<>>

Load ==
    /\ pc = "boot"
    /\ LET read == source
           naive == NormalizeIndex(read)
       IN  /\ columns_list' = naive.columns
           /\ generation_columns' = GenerationColumns(naive.columns)
           /\ df' = AddTimeFeatures(naive)
    /\ pc' = "idle"
    /\ UNCHANGED <<source, req, resp, threads>>

----------------------------------------------------------------------------
(* Index helpers.                                                          *)

RECURSIVE IndexMax(_)
IndexMax(ix) ==
    IF Len(ix) = 1 THEN ix[1] ELSE Max(Head(ix), IndexMax(Tail(ix)))

RECURSIVE IndexMin(_)
IndexMin(ix) ==
    IF Len(ix) = 1 THEN ix[1] ELSE Min(Head(ix), IndexMin(Tail(ix)))

IsMonotonicIncreasing(ix) == \A i \in 1..(Len(ix) - 1) : ix[i] <= ix[i + 1]
IsMonotonicDecreasing(ix) == \A i \in 1..(Len(ix) - 1) : ix[i] >= ix[i + 1]

\* The rows of a frame at the given positions (ascending), every column kept.
TakeRows(frame, positions) ==
    [ frame EXCEPT
        !.index = [k \in 1..Len(positions) |-> frame.index[positions[k]]],
        !.data = [c \in DOMAIN frame.data |->
                    [k \in 1..Len(positions) |-> frame.data[c][positions[k]]]] ]

\* ts - pd.Timedelta(days=days): the Timedelta constructor and the
\* subtraction both raise when the result cannot be represented.
TimedeltaOverflows(days) == days > TimedeltaMaxDays \/ days < -TimedeltaMaxDays
TimestampOverflows(t) == t > TimestampMaxHours \/ t < TimestampMinHours
MinusDays(ts, days) == ts - days * HoursPerDay

----------------------------------------------------------------------------
(* df.loc[start_time:] on a DatetimeIndex with a Timestamp bound           *)
(* (Index.get_slice_bound, side "left").                                   *)

\* The left bound as a position (1-based), or 0 for KeyError.
SliceBoundLeft(ix, label) ==
    IF \E i \in 1..Len(ix) : ix[i] = label
    THEN CHOOSE i \in 1..Len(ix) : ix[i] = label
    ELSE IF IsMonotonicIncreasing(ix)
    THEN Cardinality({ i \in 1..Len(ix) : ix[i] < label }) + 1
    ELSE IF IsMonotonicDecreasing(ix)
    THEN Cardinality({ i \in 1..Len(ix) : ix[i] > label }) + 1
    ELSE 0

LocFrom(frame, label) ==
    LET first == SliceBoundLeft(frame.index, label)
    IN  TakeRows(frame, [k \in 1..(Len(frame.index) + 1 - first) |-> first + k - 1])

----------------------------------------------------------------------------
(* Colours: px.colors.qualitative.Plotly.                                  *)

Plotly ==
    << "#636EFA", "#EF553B", "#00CC96", "#AB63FA", "#FFA15A",
       "#19D3F3", "#FF6692", "#B6E880", "#FF97FF", "#FECB52" >>

\* colors[i] for a Python (zero-based) index i within range.
ColorAt(colors, i) == colors[i + 1]

\* colors[i % len(colors)]
CycledColor(colors, i) == ColorAt(colors, i % Len(colors))

Raised(what) == [kind |-> "error", raised |-> what]

----------------------------------------------------------------------------
(* plot_time_series (src/fast_api_functions.py, lines 5-74).               *)

\* Line 39.
StartTime(frame, days) == MinusDays(IndexMax(frame.index), days)

\* Lines 54-62: one trace per requested column, in request order.
LineTraces(filtered, columns, stacked) ==
    [ i \in 1..Len(columns) |->
        [ name       |-> columns[i],
          y          |-> filtered.data[columns[i]],
          color      |-> CycledColor(Plotly, i - 1),
          stackgroup |-> IF stacked THEN "one" ELSE "none" ] ]

\* Lines 38-74, on a frame whose index is already normalised.
plot_time_series(frame, columns, stacked, days) ==
    IF TimedeltaOverflows(days) \/ TimestampOverflows(StartTime(frame, days))
    THEN Raised("OverflowError")
    ELSE IF SliceBoundLeft(frame.index, StartTime(frame, days)) = 0
    THEN Raised("KeyError")
    ELSE IF \E i \in 1..Len(columns) : columns[i] \notin Range(frame.columns)
    THEN Raised("KeyError")
    ELSE LET df_filtered == LocFrom(frame, StartTime(frame, days))
         IN  [ kind       |-> "line",
               start_time |-> StartTime(frame, days),
               x          |-> df_filtered.index,
               traces     |-> LineTraces(df_filtered, columns, stacked) ]

----------------------------------------------------------------------------
(* plot_timeseries_average_by_time_multiple_columns (lines 76-135).        *)

RECURSIVE FirstSeen(_, _)
FirstSeen(cells, seen) ==
    IF cells = <<>> THEN <<>>
    ELSE IF Head(cells).v \in seen
    THEN FirstSeen(Tail(cells), seen)
    ELSE <<Head(cells).v>> \o FirstSeen(Tail(cells), seen \cup {Head(cells).v})

\* A variant of the grouping that keeps its keys in first-seen order
\* (groupby(..., sort=False)).
GroupKeysFirstSeen(frame, time_feature) ==
    FirstSeen(frame.data[time_feature], {})

\* The distinct values of the grouping column, sorted: groupby sorts its keys.
GroupKeys(frame, time_feature) ==
    Ascending({ frame.data[time_feature][i].v : i \in 1..Len(frame.index) })

RECURSIVE MeanOver(_, _, _, _, _)
\* Series.mean() of the cells of one group, skipping NaN: the running sum
\* and count of the numeric cells of rows i..end whose key is `key`.
MeanOver(keys, cells, key, i, acc) ==
    IF i > Len(cells) THEN acc
    ELSE IF keys[i].v = key /\ IsNum(cells[i])
    THEN MeanOver(keys, cells, key, i + 1,
                  [sum |-> acc.sum + cells[i].v, count |-> acc.count + 1])
    ELSE MeanOver(keys, cells, key, i + 1, acc)

RECURSIVE MeanZeroFilled(_, _, _, _, _)
MeanZeroFilled(keys, cells, key, i, acc) ==
    IF i > Len(cells) THEN acc
    ELSE IF keys[i].v = key
    THEN MeanZeroFilled(keys, cells, key, i + 1,
                        [sum |-> acc.sum + (IF IsNum(cells[i]) THEN cells[i].v ELSE 0),
                         count |-> acc.count + 1])
    ELSE MeanZeroFilled(keys, cells, key, i + 1, acc)

\* A variant of the mean that counts a missing cell as 0 (fillna(0) before
\* the mean).
GroupMeanZeroFilled(frame, time_feature, col, key) ==
    MeanZeroFilled(frame.data[time_feature], frame.data[col], key, 1,
                   [sum |-> 0, count |-> 0])

\* One group's mean as the fraction sum/count; count = 0 is NaN.
GroupMean(frame, time_feature, col, key) ==
    MeanOver(frame.data[time_feature], frame.data[col], key, 1,
             [sum |-> 0, count |-> 0])

\* Line 115: avg_values.index and avg_values.values.
GroupedMean(frame, time_feature, col) ==
    LET keys == GroupKeys(frame, time_feature)
    IN  [ x |-> keys,
          y |-> [k \in 1..Len(keys) |->
                   GroupMean(frame, time_feature, col, keys[k])] ]

\* Line 110: px.colors.qualitative.Plotly[:len(columns)]
DefaultColors(columns) == SubSeq(Plotly, 1, Min(Len(columns), Len(Plotly)))

AverageTraces(frame, columns, time_feature, colors) ==
    [ i \in 1..Len(columns) |->
        [ name   |-> columns[i],
          x      |-> GroupedMean(frame, time_feature, columns[i]).x,
          y      |-> GroupedMean(frame, time_feature, columns[i]).y,
          marker |-> "circle",
          color  |-> ColorAt(colors, i - 1) ] ]

\* The loop of lines 114-125 stops at the first column that raises.
plot_timeseries_average(frame, columns, time_feature) ==
    LET colors == DefaultColors(columns)
        bad(i) == \/ columns[i] \notin Range(frame.columns)
                  \/ time_feature \notin Range(frame.columns)
                  \/ \E r \in 1..Len(frame.index) :
                        frame.data[columns[i]][r].kind = "str"
                  \/ i > Len(colors)
    IN  IF \E i \in 1..Len(columns) : bad(i)
        THEN LET i == CHOOSE j \in 1..Len(columns) :
                        bad(j) /\ \A k \in 1..(j - 1) : ~bad(k)
             IN  IF columns[i] \notin Range(frame.columns)
                    \/ time_feature \notin Range(frame.columns)
                 THEN Raised("KeyError")
                 ELSE IF \E r \in 1..Len(frame.index) :
                            frame.data[columns[i]][r].kind = "str"
                 THEN Raised("TypeError")
                 ELSE Raised("IndexError")
        ELSE [ kind   |-> "average",
               traces |-> AverageTraces(frame, columns, time_feature, colors) ]

----------------------------------------------------------------------------
(* plot_generation_composition_days (lines 137-183).                       *)

\* Line 149: Timedelta.days is the whole days of the difference.
MaxDays(frame) ==
    FloorDiv(IndexMax(frame.index) - IndexMin(frame.index), HoursPerDay) + 1

\* A variant of the clamp without its lower bound (lines 147-148 left out).
ClampDaysNoFloor(days, max_days) ==
    IF days > max_days THEN max_days ELSE days

\* Lines 147-151.
ClampDays(days, max_days) ==
    LET atLeastOne == IF days < 1 THEN 1 ELSE days
    IN  IF atLeastOne > max_days THEN max_days ELSE atLeastOne

\* Line 153.
Cutoff(frame, days) == MinusDays(IndexMax(frame.index), days - 1)

RECURSIVE PositionsFrom(_, _, _)
\* The positions i..end of ix whose timestamp is >= cutoff, ascending.
PositionsFrom(ix, cutoff, i) ==
    IF i > Len(ix) THEN <<>>
    ELSE IF ix[i] >= cutoff
    THEN <<i>> \o PositionsFrom(ix, cutoff, i + 1)
    ELSE PositionsFrom(ix, cutoff, i + 1)

\* Line 154: df[df.index >= cutoff], a new frame.
MaskFrom(frame, cutoff) == TakeRows(frame, PositionsFrom(frame.index, cutoff, 1))

\* pd.to_numeric(..., errors='coerce'): what is no number becomes NaN.
ToNumericCoerce(cell) == IF cell.kind = "str" THEN NaN ELSE cell
\* .fillna(0)
FillNaZero(cell) == IF cell.kind = "nan" THEN Num(0) ELSE cell

\* Line 157, on the filtered copy.
EnsureNumeric(filtered, generation_cols) ==
    [ filtered EXCEPT
        !.data = [c \in DOMAIN filtered.data |->
                    IF c \in Range(generation_cols)
                    THEN [i \in 1..Len(filtered.index) |->
                            FillNaZero(ToNumericCoerce(filtered.data[c][i]))]
                    ELSE filtered.data[c]] ]

\* Lines 164-172.
StackTraces(filtered, generation_cols) ==
    [ i \in 1..Len(generation_cols) |->
        [ name       |-> generation_cols[i],
          y          |-> filtered.data[generation_cols[i]],
          color      |-> CycledColor(Plotly, i - 1),
          stackgroup |-> "one" ] ]

plot_generation_composition_days(frame, generation_cols, days) ==
    LET max_days == MaxDays(frame)
        clamped == ClampDays(days, max_days)
        cutoff == Cutoff(frame, clamped)
        filtered_df == MaskFrom(frame, cutoff)
    IN  IF \E i \in 1..Len(generation_cols) :
                generation_cols[i] \notin Range(frame.columns)
        THEN Raised("KeyError")
        ELSE [ kind     |-> "composition",
               days     |-> clamped,
               max_days |-> max_days,
               cutoff   |-> cutoff,
               columns  |-> generation_cols,
               x        |-> filtered_df.index,
               traces   |-> StackTraces(EnsureNumeric(filtered_df, generation_cols),
                                        generation_cols) ]

----------------------------------------------------------------------------
(* The POST endpoints of app/plotter.py.                                   *)

\* A variant of the filter that passes the posted list through.
KeepAll(columns_comp, whitelist) == columns_comp

RECURSIVE RemoveFirst(_, _)
RemoveFirst(s, e) ==
    IF s = <<>> THEN <<>>
    ELSE IF Head(s) = e THEN Tail(s)
    ELSE <<Head(s)>> \o RemoveFirst(Tail(s), e)

RECURSIVE RemoveWhileIterating(_, _, _)
RemoveWhileIterating(s, allowed, i) ==
    IF i > Len(s) THEN s
    ELSE IF s[i] \in allowed
    THEN RemoveWhileIterating(s, allowed, i + 1)
    ELSE RemoveWhileIterating(RemoveFirst(s, s[i]), allowed, i + 1)

\* A variant of the filter that removes from the list it is iterating over
\* (for c in columns_comp: if c not in generation_columns: columns_comp.remove(c)),
\* which skips the name after each removal.
KeepValidInPlace(columns_comp, whitelist) ==
    RemoveWhileIterating(columns_comp, Range(whitelist), 1)

\* Line 181: [c for c in columns_comp if c in generation_columns]
KeepValid(columns_comp, whitelist) == FilterSeq(columns_comp, Range(whitelist))

\* A variant of the handler without the early return of lines 183-184.
composition_plot_unguarded(frame, whitelist, columns_comp, days) ==
    plot_generation_composition_days(frame, KeepValid(columns_comp, whitelist), days)

\* Lines 181-186.
composition_plot(frame, whitelist, columns_comp, days) ==
    LET valid == KeepValid(columns_comp, whitelist)
    IN  IF valid = <<>>
        THEN [kind |-> "no_valid_columns"]
        ELSE plot_generation_composition_days(frame, valid, days)

\* The column selections a client posts: non-empty (the form field is
\* required) and without repeats (a multiple select posts each option once).
TheFirst(n) == SubSeq(CsvColumns, 1, n)
ColumnLists ==
    { << generation_solar >>,
      << generation_solar, generation_wind, not_a_real_column >>,
      << generation_wind, generation_solar >>,
      << not_a_real_column >>,
      << <<"total", "generation">>, <<"price", "actual">> >>,
      << <<"generation", "load", "difference">>, generation_solar >>,
      TheFirst(Len(Plotly) + 1) }

\* The day counts a client posts: any integer parses as Form int.
DayCounts == { -1, 0, 1, 2, 3, MaxHourlyDays + 1, 100000, 200000 }

Plot ==
    /\ pc = "idle"
    /\ \E columns \in ColumnLists, days \in DayCounts, stacked \in BOOLEAN :
         /\ req' = [NoRequest EXCEPT !.endpoint = "/plot", !.columns = columns,
                                     !.days = days, !.stacked = stacked]
         /\ df' = NormalizeIndex(df)
         /\ resp' = plot_time_series(NormalizeIndex(df), columns, stacked, days)
    /\ pc' = "responded"
    /\ UNCHANGED <<source, columns_list, generation_columns, threads>>

AvgPlot ==
    /\ pc = "idle"
    /\ \E columns_avg \in ColumnLists, f \in 1..Len(time_features) :
         /\ req' = [NoRequest EXCEPT !.endpoint = "/avg_plot",
                                     !.columns = columns_avg,
                                     !.time_feature = time_features[f]]
         /\ resp' = plot_timeseries_average(df, columns_avg, time_features[f])
    /\ pc' = "responded"
    /\ UNCHANGED <<source, df, columns_list, generation_columns, threads>>

CompositionPlot ==
    /\ pc = "idle"
    /\ \E columns_comp \in ColumnLists, days \in DayCounts :
         /\ req' = [NoRequest EXCEPT !.endpoint = "/composition_plot",
                                     !.columns = columns_comp, !.days = days]
         /\ resp' = composition_plot(df, generation_columns, columns_comp, days)
    /\ pc' = "responded"
    /\ UNCHANGED <<source, df, columns_list, generation_columns, threads>>

\* The response is handed to the client and dropped; the next request starts
\* from the module state alone.
Return ==
    /\ pc = "responded"
    /\ pc' = "idle"
    /\ req' = NoRequest
    /\ resp' = NoResponse
    /\ UNCHANGED <<source, df, columns_list, generation_columns, threads>>

Next == Load \/ Plot \/ AvgPlot \/ CompositionPlot \/ Return

Spec == Init /\ [][Next]_vars

----------------------------------------------------------------------------
(* The same endpoints served on several threads at once: the handlers are  *)
(* plain `def` functions, which FastAPI runs on a thread pool, so their    *)
(* lines interleave.  Each step below is one access to the shared df.      *)

Threads == 1..MaxThreads

IdleThread == [stage |-> "idle", endpoint |-> "none", days |-> 0, local |-> NoFrame]

\* The files of the threaded runs: the irregular tables of the first day and
\* a half, in every row order.
ThreadIndexes ==
    { ix \in IrregularIndexes : \A i \in 1..Len(ix) : ix[i] <= Base + HoursPerDay }
ThreadSources == { MakeSource(ix, v) : ix \in ThreadIndexes, v \in SourceVariants }

\* Every threaded request selects generation_solar, the column with missing
\* and non-numeric cells.
ThreadColumns == << generation_solar >>
ThreadDayCounts == { 1, 2 }

\* A variant in which the filtered frame is a view of the shared table, so
\* that the assignment of line 157 writes through to it.
SharedWrittenThrough(frame, generation_cols) == EnsureNumeric(frame, generation_cols)

\* Lines 154-157 as seen from the shared table: df[df.index >= cutoff] is a
\* new frame, and the assignment of line 157 goes to that frame.
SharedAfterEnsureNumeric(frame, generation_cols) == frame

InitThreads ==
    /\ source \in ThreadSources
    /\ df = NoFrame
    /\ columns_list = <<>>
    /\ generation_columns = <<>>
    /\ pc = "boot"
    /\ req = NoRequest
    /\ resp = NoResponse
    /\ threads = [t \in Threads |-> IdleThread]

ThreadStep(t, next) ==
    /\ pc = "idle"
    /\ threads' = [threads EXCEPT ![t] = next]
    /\ UNCHANGED <<source, columns_list, generation_columns, pc, req, resp>>

\* A request arrives and its handler starts.
Accept(t) ==
    /\ threads[t].stage = "idle"
    /\ \E endpoint \in {"/plot", "/avg_plot", "/composition_plot"},
          days \in ThreadDayCounts :
         ThreadStep(t, [IdleThread EXCEPT !.stage = "accepted",
                                          !.endpoint = endpoint,
                                          !.days = IF endpoint = "/avg_plot"
                                                   THEN 0 ELSE days])
    /\ UNCHANGED df

\* plot_time_series, lines 31-36: the index of the shared df is assigned if
\* it is not naive.
PlotNormalize(t) ==
    /\ threads[t].stage = "accepted" /\ threads[t].endpoint = "/plot"
    /\ df' = NormalizeIndex(df)
    /\ ThreadStep(t, [threads[t] EXCEPT !.stage = "normalized"])

\* plot_time_series, lines 39-40: the window is read from the shared df.
PlotFilter(t) ==
    /\ threads[t].stage = "normalized"
    /\ LET start == StartTime(df, threads[t].days)
       IN  ThreadStep(t, [threads[t] EXCEPT
                !.stage = "done",
                !.local = IF SliceBoundLeft(df.index, start) = 0
                          THEN NoFrame ELSE LocFrom(df, start)])
    /\ UNCHANGED df

\* plot_timeseries_average_by_time_multiple_columns, line 115: read only.
AvgGroup(t) ==
    /\ threads[t].stage = "accepted" /\ threads[t].endpoint = "/avg_plot"
    /\ ThreadStep(t, [threads[t] EXCEPT !.stage = "done"])
    /\ UNCHANGED df

\* plot_generation_composition_days, lines 147-154: the filtered copy.
CompFilter(t) ==
    /\ threads[t].stage = "accepted" /\ threads[t].endpoint = "/composition_plot"
    /\ ThreadStep(t, [threads[t] EXCEPT
            !.stage = "filtered",
            !.local = MaskFrom(df, Cutoff(df, ClampDays(threads[t].days, MaxDays(df))))])
    /\ UNCHANGED df

\* plot_generation_composition_days, line 157.
CompEnsureNumeric(t) ==
    /\ threads[t].stage = "filtered"
    /\ df' = SharedAfterEnsureNumeric(df, KeepValid(ThreadColumns, generation_columns))
    /\ ThreadStep(t, [threads[t] EXCEPT
            !.stage = "done",
            !.local = EnsureNumeric(threads[t].local,
                                    KeepValid(ThreadColumns, generation_columns))])

\* The handler returns; its locals are gone.
Finish(t) ==
    /\ threads[t].stage = "done"
    /\ ThreadStep(t, IdleThread)
    /\ UNCHANGED df

NextThreads ==
    \/ Load
    \/ \E t \in Threads :
          \/ Accept(t)
          \/ PlotNormalize(t)
          \/ PlotFilter(t)
          \/ AvgGroup(t)
          \/ CompFilter(t)
          \/ CompEnsureNumeric(t)
          \/ Finish(t)

SpecThreads == InitThreads /\ [][NextThreads]_vars

----------------------------------------------------------------------------
(* The whitelist filter of line 181 by itself, run on its own output.      *)

FilterNames == << generation_solar, generation_wind, not_a_real_column >>

\* Posted lists of up to MaxListLen names, repeats allowed, the empty list too.
PostedLists ==
    UNION { [1..n -> Range(FilterNames)] : n \in 0..MaxListLen }

\* Whitelists: any selection of the names, in file order.
Whitelists == { FilterSeq(FilterNames, S) : S \in SUBSET Range(FilterNames) }

InitFilter ==
    /\ source = NoFrame
    /\ df = NoFrame
    /\ columns_list = <<>>
    /\ generation_columns \in Whitelists
    /\ pc = "filter"
    /\ req \in { [NoRequest EXCEPT !.endpoint = "/composition_plot", !.columns = l] :
                  l \in PostedLists }
    /\ resp = NoResponse
    /\ threads = <<>>

FilterOnce ==
    /\ pc = "filter"
    /\ resp' = [kind |-> "filtered",
                once |-> KeepValid(req.columns, generation_columns)]
    /\ pc' = "filtered"
    /\ UNCHANGED <<source, df, columns_list, generation_columns, req, threads>>

FilterAgain ==
    /\ pc = "filtered"
    /\ resp' = [kind  |-> "refiltered",
                once  |-> resp.once,
                twice |-> KeepValid(resp.once, generation_columns)]
    /\ pc' = "refiltered"
    /\ UNCHANGED <<source, df, columns_list, generation_columns, req, threads>>

NextFilter == FilterOnce \/ FilterAgain

SpecFilter == InitFilter /\ [][NextFilter]_vars

----------------------------------------------------------------------------
(* Vocabulary of the properties.                                           *)

SetMax(S) == CHOOSE x \in S : \A y \in S : y <= x
SetMin(S) == CHOOSE x \in S : \A y \in S : x <= y

Timestamps == Range(df.index)
\* span(T): (max(T) - min(T)) in whole days, plus one.
Span == ((SetMax(Timestamps) - SetMin(Timestamps)) \div HoursPerDay) + 1
TimeSorted == \A i, j \in 1..Len(df.index) : i < j => df.index[i] < df.index[j]

Responded(endpoint) == pc = "responded" /\ req.endpoint = endpoint
\* The handler returned a chart with a time window.
WindowChart == pc = "responded" /\ resp.kind \in {"line", "composition"}

\* The rows of the table with a timestamp in [from, max(T)], in table order.
RowsFrom(from) == SelectSeq(df.index, LAMBDA t : t >= from)

LastRows(n) == SubSeq(df.index, Len(df.index) - n + 1, Len(df.index))

GapFreeHourly ==
    \A i \in 1..(Len(df.index) - 1) : df.index[i + 1] = df.index[i] + 1

Position(s, e) == CHOOSE i \in 1..Len(s) : s[i] = e

\* The cell of column c in the row of the table with timestamp t.
CellAt(c, t) == df.data[c][Position(df.index, t)]

RECURSIVE SumOfCells(_, _)
\* The sum of column c over a set of row positions.
SumOfCells(c, rows) ==
    IF rows = {} THEN 0
    ELSE LET r == CHOOSE x \in rows : TRUE
         IN  df.data[c][r].v + SumOfCells(c, rows \ {r})

FeatureDomain(f) ==
    IF f = hour_of_day THEN 0..(HoursPerDay - 1)
    ELSE IF f = day_of_week THEN 0..(DaysPerWeek - 1)
    ELSE 1..Len(MonthLengths)

\* The bucket value of timestamp t, from the calendar.
FeatureOf(f, t) ==
    IF f = hour_of_day THEN Hour(t)
    ELSE IF f = day_of_week THEN DayOfWeek(t)
    ELSE Month(t)

----------------------------------------------------------------------------
(* Properties.                                                             *)

\* C1: in plot_generation_composition_days the day count the cutoff is
\* computed from is min(max(day_count, 1), span) for every posted day_count:
\* values <= 0 give 1, values above the span give the span.
C1_EffectiveDayCount ==
    Responded("/composition_plot") /\ resp.kind = "composition" =>
        /\ resp.days = Min(Max(req.days, 1), Span)
        /\ resp.cutoff = SetMax(Timestamps) - (resp.days - 1) * HoursPerDay

\* C1, its case: day_count = 100000 on a table spanning 30 days is cut to 30.
C1_Witness ==
    /\ Responded("/composition_plot") /\ resp.kind = "composition"
    /\ req.days = 100000 /\ Span = 30 /\ resp.days = 30

\* C2 as stated: whenever day_count exceeds span(T), the window of a chart
\* over a time-sorted table is the whole table.
C2_FullTableBeyondSpan ==
    WindowChart /\ TimeSorted /\ req.days > Span => resp.x = df.index

\* C3 as stated: on 5 days of gap-free hourly rows, day_count = 3 selects
\* exactly the last 3 * 24 rows, on the line chart and on the composition
\* chart alike.
C3_LastThreeDaysOfFive ==
    /\ WindowChart /\ TimeSorted /\ GapFreeHourly
    /\ Len(df.index) = 5 * HoursPerDay /\ req.days = 3
    => resp.x = LastRows(3 * HoursPerDay)

\* C4 as stated: for a time-sorted table and 1 <= d <= span(T) the window is
\* exactly the rows with max(T) - d days <= t <= max(T), in table order.
C4_WindowCoversDDays ==
    WindowChart /\ TimeSorted /\ req.days >= 1 /\ req.days <= Span =>
        resp.x = RowsFrom(SetMax(Timestamps) - req.days * HoursPerDay)

\* C5 as stated: for every posted day_count, on both window paths, the
\* selection does not fail and the window holds the row at max(T).  (The
\* requests taken are those whose columns the chart can draw, so that only
\* the window selection can fail.)
C5_WindowNeverFailsNorEmpty ==
    /\ pc = "responded" /\ TimeSorted
    /\ \/ req.endpoint = "/plot" /\ Range(req.columns) \subseteq Range(df.columns)
       \/ req.endpoint = "/composition_plot" /\ resp.kind # "no_valid_columns"
    => /\ resp.kind \in {"line", "composition"}
       /\ resp.x # <<>>
       /\ SetMax(Timestamps) \in Range(resp.x)

\* The columns handed to plot_generation_composition_days by the handler
\* (none when it returned before the call).
Charted == IF resp.kind = "composition" THEN resp.columns ELSE <<>>

\* C6: the whitelist filter of /composition_plot keeps exactly the posted
\* names that are in generation_columns, in posted order, and drops every
\* other name without an error; generation_columns itself holds the file's
\* generation_* columns except the two derived ones.
C6_WhitelistFilter ==
    Responded("/composition_plot") =>
        /\ resp.kind # "error"
        /\ Range(Charted) = Range(req.columns) \cap Range(generation_columns)
        /\ \A i, j \in 1..Len(Charted) :
              i < j => Position(req.columns, Charted[i])
                         < Position(req.columns, Charted[j])
        /\ \A c \in Range(Charted) :
              /\ c[1] = "generation" /\ Len(c) >= 2
              /\ c \in Range(CsvColumns)
              /\ c # <<"generation", "load", "difference">>

\* C6, its case: [generation_solar, generation_wind, not_a_real_column] is
\* charted as [generation_solar, generation_wind].
C6_Witness ==
    /\ Responded("/composition_plot")
    /\ req.columns = << generation_solar, generation_wind, not_a_real_column >>
    /\ resp.kind = "composition"
    /\ resp.columns = << generation_solar, generation_wind >>

\* C7: when no posted column is in the whitelist, /composition_plot answers
\* "No valid generation columns selected" without raising, and the chart
\* builder is never called with an empty column list.
C7_NoValidColumnsShortCircuit ==
    Responded("/composition_plot") =>
        /\ (Range(req.columns) \cap Range(generation_columns) = {}
               => resp.kind = "no_valid_columns")
        /\ (resp.kind = "composition" => resp.columns # <<>>)
        /\ resp.kind \in {"no_valid_columns", "composition"}

\* C7, its case: a posted list of real columns none of which is whitelisted.
C7_Witness ==
    /\ Responded("/composition_plot")
    /\ req.columns = << <<"total", "generation">>, <<"price", "actual">> >>
    /\ resp.kind = "no_valid_columns"

\* C8: in every average chart the bucket keys of every trace are strictly
\* increasing, lie in the feature's domain (0..23, 0..6, 1..12) and are the
\* feature values of rows of the table, whatever the order in which the
\* values first appear.
C8_BucketKeys ==
    Responded("/avg_plot") /\ resp.kind = "average" =>
        \A n \in 1..Len(resp.traces) :
            LET x == resp.traces[n].x
            IN  /\ \A i \in 1..(Len(x) - 1) : x[i] < x[i + 1]
                /\ Range(x) \subseteq FeatureDomain(req.time_feature)
                /\ Range(x) = { FeatureOf(req.time_feature, t) : t \in Timestamps }

\* C8, its case: the bucket values first appear in the table in an order
\* that is not increasing.
C8_Witness ==
    /\ Responded("/avg_plot") /\ resp.kind = "average"
    /\ \E i \in 1..(Len(df.index) - 1) :
          FeatureOf(req.time_feature, df.index[i])
              > FeatureOf(req.time_feature, df.index[i + 1])
    /\ Len(resp.traces[1].x) > 1

\* The rows of bucket k of the requested feature with a number in column c.
NumericRows(c, k) ==
    { r \in 1..Len(df.index) :
        FeatureOf(req.time_feature, df.index[r]) = k /\ IsNum(df.data[c][r]) }

\* C9: the average chart's mean of a bucket is the sum of the non-missing
\* values over their count (a missing value is neither counted nor taken as
\* 0), while the composition chart keeps every row of the window and shows
\* each missing or non-numeric cell as 0.
C9_MissingValues ==
    /\ Responded("/avg_plot") /\ resp.kind = "average" =>
          \A n \in 1..Len(resp.traces) :
              LET tr == resp.traces[n]
              IN  /\ Len(tr.y) = Len(tr.x)
                  /\ \A k \in 1..Len(tr.x) :
                        /\ tr.y[k].count = Cardinality(NumericRows(tr.name, tr.x[k]))
                        /\ tr.y[k].sum = SumOfCells(tr.name, NumericRows(tr.name, tr.x[k]))
    /\ Responded("/composition_plot") /\ resp.kind = "composition" =>
          \A n \in 1..Len(resp.traces) :
              LET tr == resp.traces[n]
              IN  /\ Len(tr.y) = Len(resp.x)
                  /\ \A i \in 1..Len(resp.x) :
                        tr.y[i] = IF IsNum(CellAt(tr.name, resp.x[i]))
                                  THEN CellAt(tr.name, resp.x[i])
                                  ELSE Num(0)

\* C9, its case: a column holding [10, missing, 20] in one bucket has the
\* mean 30/2 = 15.
C9_Witness ==
    /\ Responded("/avg_plot") /\ resp.kind = "average"
    /\ req.columns = << generation_solar >>
    /\ df.data[generation_solar] = << Num(10), NaN, Num(20) >>
    /\ resp.traces[1].y = << [sum |-> 30, count |-> 2] >>

\* C10 as stated: each of the three chart builders gives the i-th of n
\* series (n >= 1, also n above the palette's length) the colour
\* palette[i mod len(palette)] and does not fail.  (The requests taken are
\* those whose columns and window the builder can draw, so that only the
\* colour assignment can fail.)
C10_ColoursCycle ==
    /\ pc = "responded" /\ TimeSorted
    /\ \/ /\ req.endpoint = "/plot"
          /\ Range(req.columns) \subseteq Range(df.columns)
          /\ req.days \in 0..TimedeltaMaxDays
       \/ /\ req.endpoint = "/avg_plot"
          /\ Range(req.columns) \subseteq Range(df.columns)
          /\ \A c \in Range(req.columns) :
                \A r \in 1..Len(df.index) : df.data[c][r].kind # "str"
       \/ /\ req.endpoint = "/composition_plot"
          /\ resp.kind # "no_valid_columns"
    => /\ resp.kind \in {"line", "average", "composition"}
       /\ \A i \in 1..Len(resp.traces) :
             resp.traces[i].color = Plotly[((i - 1) % Len(Plotly)) + 1]

\* C11: once the dataset is loaded, no step of any request, in any
\* interleaving of /plot, /avg_plot and /composition_plot on the worker
\* threads, changes the shared table: index, timezone, columns and every
\* cell, the zero-filled ones included, stay as loaded.
C11_TableUnchanged == [][pc # "boot" => df' = df]_vars

\* C11, its case: a composition request holds a zero-filled cell in its
\* filtered frame while the shared table still holds the missing or
\* non-numeric cell, and another thread is in the middle of a request.
C11_Witness ==
    /\ pc = "idle"
    /\ \E t, u \in Threads :
          /\ t # u
          /\ threads[u].stage \in {"accepted", "normalized", "filtered"}
          /\ threads[t].endpoint = "/composition_plot"
          /\ threads[t].stage = "done"
          /\ \E i \in 1..Len(threads[t].local.index) :
                /\ threads[t].local.data[generation_solar][i] = Num(0)
                /\ ~IsNum(CellAt(generation_solar, threads[t].local.index[i]))

\* C12 as stated: whatever the row order and the timezone of the file, the
\* table held after load, and in every state after it, is sorted ascending
\* by timestamp and timezone-naive.
C12_SortedNaiveAfterLoad ==
    pc # "boot" => TimeSorted /\ df.tz = "naive"

\* C13: the whitelist filter is idempotent: filtering the filtered list
\* against the same whitelist gives the same names in the same order with
\* the same multiplicities.
C13_FilterIdempotent ==
    pc = "refiltered" => resp.twice = resp.once

\* C13, its case: a posted list with a repeated whitelisted name around a
\* name that is dropped.
C13_Witness ==
    /\ pc = "refiltered"
    /\ req.columns = << generation_solar, not_a_real_column, generation_solar >>
    /\ resp.once = << generation_solar, generation_solar >>
    /\ resp.twice = << generation_solar, generation_solar >>

IsSuffix(s, t) ==
    Len(s) <= Len(t) /\ s = SubSeq(t, Len(t) - Len(s) + 1, Len(t))

\* The window plot_time_series selects on the table and day count of the
\* composition request just answered (an exception has no window).
LineWindow == plot_time_series(df, resp.columns, FALSE, req.days)

\* The rows of the table with from <= t < to, in table order.
RowsBetween(from, to) == SelectSeq(df.index, LAMBDA t : from <= t /\ t < to)

SuffixRelation ==
    /\ LineWindow.kind = "line"
    /\ IsSuffix(resp.x, LineWindow.x)
    /\ resp.x # <<>> /\ resp.x[Len(resp.x)] = SetMax(Timestamps)
    /\ LineWindow.x[Len(LineWindow.x)] = SetMax(Timestamps)
    /\ req.days <= Span =>
          LineWindow.x =
              RowsBetween(SetMax(Timestamps) - req.days * HoursPerDay,
                          SetMax(Timestamps) - (req.days - 1) * HoursPerDay)
              \o resp.x

\* C14 as stated: on a time-sorted table, for every day count d >= 1, the
\* composition window is a suffix of the line-chart window for the same d,
\* both end at the row of max(T), and for d <= span the line-chart window
\* holds in addition exactly the rows with max - d days <= t < max - (d-1) days.
C14_CompositionWindowIsSuffix ==
    /\ Responded("/composition_plot") /\ resp.kind = "composition"
    /\ TimeSorted /\ req.days >= 1
    => SuffixRelation

\* C14 for the day counts pd.Timedelta(days=d) can hold: the relation
\* stated by C14 for 1 <= d <= 106751.
C14_WithinTimedeltaRange ==
    /\ Responded("/composition_plot") /\ resp.kind = "composition"
    /\ TimeSorted /\ req.days >= 1 /\ req.days <= TimedeltaMaxDays
    => SuffixRelation

====
